---- MODULE Spec2Model ----
(***************************************************************************)
(* Model of the SIE ledger reader in src/src/main.rs: the field cleaner    *)
(* clean_string, the line tokenizer parse_line, the account lookup          *)
(* find_account, the reconciler calculate_out_balances and the record       *)
(* parser parse_sie_file.                                                   *)
(*                                                                          *)
(* A string is a sequence of characters; a character is a one-character     *)
(* TLA+ string, or the code point's name ("U+201E") where the character is  *)
(* not ASCII.  Option<T> is a sequence of length 0 (None) or 1 (Some).      *)
(* A Vec index i of the source is index i+1 here.  f64 amounts are          *)
(* integers: every amount in the model's inputs is a whole number far       *)
(* inside the range where f64 arithmetic is exact.                          *)
(***************************************************************************)
EXTENDS Integers, Sequences, FiniteSets, TLC

VARIABLES
    pc,             \* position in parse_sie_file
    consumed,       \* the lines of `contents` the loop has taken so far
    verifications,  \* local `verifications`
    accounts,       \* local `accounts`
    current_ver,    \* local `current_ver`
    tl_line,        \* argument of a parse_line call
    tl_fields,      \* its result (<<>> before the call)
    cs_in,          \* argument of a clean_string call
    cs_out          \* results of applying clean_string repeatedly

vars == <<pc, consumed, verifications, accounts, current_ver,
          tl_line, tl_fields, cs_in, cs_out>>

(***************************************************************************)
(* Bounds                                                                  *)
(***************************************************************************)
MaxLines == 4
MaxLineLen == 5
MaxCleanLen == 3

(***************************************************************************)
(* Characters                                                              *)
(***************************************************************************)
DQ == "\""
SPC == " "
\* the five mis-encoded source glyphs of clean_string and the replacement glyph
G_201E == "U+201E"
G_201D == "U+201D"
G_2122 == "U+2122"
G_2020 == "U+2020"
G_008F == "U+008F"
G_FFFD == "U+FFFD"
\* the corrected letters
L_ae == "U+00E4"
L_oe == "U+00F6"
L_OE == "U+00D6"
L_aa == "U+00E5"
L_AA == "U+00C5"
QMARK == "?"

None == <<>>
Some(x) == <<x>>
unwrap_or(opt, default) == IF opt = None THEN default ELSE opt[1]

BoundedSeq(S, n) == UNION {[1..k -> S] : k \in 0..n}

(***************************************************************************)
(* str::trim_matches, str::trim, str::replace, str::starts_with            *)
(***************************************************************************)
RECURSIVE trim_start_set(_, _)
trim_start_set(s, cs) ==
    IF s # <<>> /\ s[1] \in cs THEN trim_start_set(Tail(s), cs) ELSE s

RECURSIVE trim_end_set(_, _)
trim_end_set(s, cs) ==
    IF s # <<>> /\ s[Len(s)] \in cs
    THEN trim_end_set(SubSeq(s, 1, Len(s) - 1), cs) ELSE s

trim_matches(s, c) == trim_end_set(trim_start_set(s, {c}), {c})

\* the White_Space characters that occur in the model's alphabets
WhiteSpace == {SPC}

trim(s) == trim_end_set(trim_start_set(s, WhiteSpace), WhiteSpace)

replace(s, from, to) == [i \in 1..Len(s) |-> IF s[i] = from THEN to ELSE s[i]]

starts_with(s, prefix) ==
    /\ Len(s) >= Len(prefix)
    /\ SubSeq(s, 1, Len(prefix)) = prefix

(***************************************************************************)
(* clean_string                                                            *)
(***************************************************************************)
\* the second rule writes the glyph the first rule reads
substitute_chained(s) ==
    replace(replace(replace(replace(replace(replace(s,
        G_201E, L_ae), G_201D, G_201E), G_2122, L_OE), G_2020, L_aa),
        G_008F, L_AA), G_FFFD, QMARK)

substitute(s) ==
    replace(replace(replace(replace(replace(replace(s,
        G_201E, L_ae), G_201D, L_oe), G_2122, L_OE), G_2020, L_aa),
        G_008F, L_AA), G_FFFD, QMARK)

clean_string(s) == substitute(trim(trim_matches(s, DQ)))

(***************************************************************************)
(* parse_line: the loop body is tok_step, the loop is parse_line_from      *)
(***************************************************************************)
tok_init == [inside_quote |-> FALSE, current_string |-> <<>>, ret |-> <<>>]

\* an unquoted space after an empty field starts no new field
tok_step_collapsing(st, ch) ==
    IF ch = DQ
    THEN [st EXCEPT !.inside_quote = ~st.inside_quote]
    ELSE IF ch = SPC
    THEN IF st.inside_quote
         THEN [st EXCEPT !.current_string = Append(@, ch)]
         ELSE IF st.current_string = <<>> THEN st
         ELSE [st EXCEPT !.ret = Append(@, st.current_string),
                         !.current_string = <<>>]
    ELSE [st EXCEPT !.current_string = Append(@, ch)]

\* the quote character toggles the state and is kept in the field
tok_step_keeping_quote(st, ch) ==
    IF ch = DQ
    THEN [st EXCEPT !.inside_quote = ~st.inside_quote,
                    !.current_string = Append(@, ch)]
    ELSE IF ch = SPC
    THEN IF st.inside_quote
         THEN [st EXCEPT !.current_string = Append(@, ch)]
         ELSE [st EXCEPT !.ret = Append(@, st.current_string),
                         !.current_string = <<>>]
    ELSE [st EXCEPT !.current_string = Append(@, ch)]

tok_step(st, ch) ==
    IF ch = DQ
    THEN [st EXCEPT !.inside_quote = ~st.inside_quote]
    ELSE IF ch = SPC
    THEN IF st.inside_quote
         THEN [st EXCEPT !.current_string = Append(@, ch)]
         ELSE [st EXCEPT !.ret = Append(@, st.current_string),
                         !.current_string = <<>>]
    ELSE [st EXCEPT !.current_string = Append(@, ch)]

RECURSIVE parse_line_from(_, _, _)
parse_line_from(s, i, st) ==
    IF i > Len(s) THEN Append(st.ret, st.current_string)
    ELSE parse_line_from(s, i + 1, tok_step(st, s[i]))

parse_line(s) == parse_line_from(s, 1, tok_init)

(***************************************************************************)
(* str::parse::<u32>() and str::parse::<f64>()                             *)
(***************************************************************************)
Digits == <<"0", "1", "2", "3", "4", "5", "6", "7", "8", "9">>
IsDigit(c) == \E d \in 1..10 : Digits[d] = c
DigitVal(c) == (CHOOSE d \in 1..10 : Digits[d] = c) - 1
AllDigits(s) == s # <<>> /\ \A i \in 1..Len(s) : IsDigit(s[i])

RECURSIVE DecimalValue(_)
DecimalValue(s) ==
    IF s = <<>> THEN 0
    ELSE 10 * DecimalValue(SubSeq(s, 1, Len(s) - 1)) + DigitVal(s[Len(s)])

\* u32::MAX = 4294967295, as digits: the value itself is compared digit by digit
U32MaxDigits == <<4, 2, 9, 4, 9, 6, 7, 2, 9, 5>>

RECURSIVE DigitsLeq(_, _)
DigitsLeq(s, m) ==
    \/ s = <<>>
    \/ DigitVal(s[1]) < m[1]
    \/ DigitVal(s[1]) = m[1] /\ DigitsLeq(Tail(s), Tail(m))

FitsU32(s) ==
    LET sig == trim_start_set(s, {"0"})
    IN \/ Len(sig) < Len(U32MaxDigits)
       \/ Len(sig) = Len(U32MaxDigits) /\ DigitsLeq(sig, U32MaxDigits)

\* Ok(v) is Some(v), Err(_) is None
parse_u32(s) ==
    LET digits == IF s # <<>> /\ s[1] = "+" THEN Tail(s) ELSE s
    IN IF AllDigits(digits) /\ FitsU32(digits)
       THEN Some(DecimalValue(digits)) ELSE None

\* the decimal literals of the model's inputs: an optional sign and digits
parse_f64(s) ==
    LET signed == s # <<>> /\ s[1] \in {"+", "-"}
        digits == IF signed THEN Tail(s) ELSE s
    IN IF AllDigits(digits)
       THEN Some(IF signed /\ s[1] = "-" THEN 0 - DecimalValue(digits)
                 ELSE DecimalValue(digits))
       ELSE None

(***************************************************************************)
(* find_account and calculate_out_balances                                 *)
(***************************************************************************)
\* the last index whose number matches, as a map keyed by number would keep
find_account_last(accs, number) ==
    IF \E i \in 1..Len(accs) : accs[i].number = number
    THEN Some(CHOOSE i \in 1..Len(accs) :
                /\ accs[i].number = number
                /\ \A j \in (i + 1)..Len(accs) : accs[j].number # number)
    ELSE None

\* Some(idx) with idx the first index whose number matches, or None
find_account(accs, number) ==
    IF \E i \in 1..Len(accs) : accs[i].number = number
    THEN Some(CHOOSE i \in 1..Len(accs) :
                /\ accs[i].number = number
                /\ \A j \in 1..(i - 1) : accs[j].number # number)
    ELSE None

\* the reset of lines 90-92 left out
reset_out_balances_skipped(accs) == accs

\* lines 90-92: every out_balance starts from in_balance
reset_out_balances(accs) ==
    [i \in 1..Len(accs) |-> [accs[i] EXCEPT !.out_balance = accs[i].in_balance]]

\* the amount added to in_balance as well
post_transaction_both(accs, transaction) ==
    LET found == find_account(accs, transaction.account)
    IN IF found = None THEN accs
       ELSE [accs EXCEPT ![found[1]].out_balance = @ + transaction.amount,
                         ![found[1]].in_balance = @ + transaction.amount]

\* lines 95-102: one transaction
post_transaction(accs, transaction) ==
    LET found == find_account(accs, transaction.account)
    IN IF found = None THEN accs
       ELSE [accs EXCEPT ![found[1]].out_balance = @ + transaction.amount]

\* the first transaction of an unknown account ends the verification's loop
RECURSIVE post_transactions_stopping(_, _)
post_transactions_stopping(accs, transactions) ==
    IF transactions = <<>> THEN accs
    ELSE IF find_account(accs, Head(transactions).account) = None THEN accs
    ELSE post_transactions_stopping(post_transaction(accs, Head(transactions)),
                                    Tail(transactions))

RECURSIVE post_transactions(_, _)
post_transactions(accs, transactions) ==
    IF transactions = <<>> THEN accs
    ELSE post_transactions(post_transaction(accs, Head(transactions)),
                           Tail(transactions))

RECURSIVE post_verifications(_, _)
post_verifications(accs, vers) ==
    IF vers = <<>> THEN accs
    ELSE post_verifications(post_transactions(accs, Head(vers).transactions),
                            Tail(vers))

calculate_out_balances(accs, vers) ==
    post_verifications(reset_out_balances(accs), vers)

(***************************************************************************)
(* The record lines the model feeds to parse_sie_file                      *)
(***************************************************************************)
KW_VER == <<"#", "V", "E", "R">>
KW_IB == <<"#", "I", "B">>
KW_KONTO == <<"#", "K", "O", "N", "T", "O">>
KW_TRANS == <<"#", "T", "R", "A", "N", "S">>

N_1910 == <<"1", "9", "1", "0">>
N_3000 == <<"3", "0", "0", "0">>
D_20240101 == <<"2", "0", "2", "4", "0", "1", "0", "1">>
D_20240102 == <<"2", "0", "2", "4", "0", "1", "0", "2">>
SP == <<SPC>>

\* #VER A 1 20240101 "Text"
Line_VerA == KW_VER \o SP \o <<"A">> \o SP \o <<"1">> \o SP \o D_20240101
                \o SP \o <<DQ, "T", "e", "x", "t", DQ>>
\* #VER B 2 20240102 "T x"
Line_VerB == KW_VER \o SP \o <<"B">> \o SP \o <<"2">> \o SP \o D_20240102
                \o SP \o <<DQ, "T", SPC, "x", DQ>>
\* #VER C 3        (fewer fields than the grammar requires)
Line_VerShort == KW_VER \o SP \o <<"C">> \o SP \o <<"3">>
\* #VERX D 4 20240101 T   (a keyword that only begins with #VER)
Line_VerX == KW_VER \o <<"X">> \o SP \o <<"D">> \o SP \o <<"4">> \o SP
                \o D_20240101 \o SP \o <<"T">>
\* #ver A 1 20240101 T    (a keyword in another letter case)
Line_LowerVer == <<"#", "v", "e", "r">> \o SP \o <<"A">> \o SP \o <<"1">> \o SP
                \o D_20240101 \o SP \o <<"T">>
\* #FNAMN X
Line_Fnamn == <<"#", "F", "N", "A", "M", "N">> \o SP \o <<"X">>
\* #KONTO 1910 "Kassa"
Line_Konto1910 == KW_KONTO \o SP \o N_1910 \o SP
                \o <<DQ, "K", "a", "s", "s", "a", DQ>>
\* #KONTO 3000 F
Line_Konto3000 == KW_KONTO \o SP \o N_3000 \o SP \o <<"F">>
\* #KONTO 1910      (fewer fields than the grammar requires)
Line_KontoShort == KW_KONTO \o SP \o N_1910
\* #IB 0 1910 500
Line_Ib0 == KW_IB \o SP \o <<"0">> \o SP \o N_1910 \o SP \o <<"5", "0", "0">>
\* #IB 1 1910 700
Line_Ib1 == KW_IB \o SP \o <<"1">> \o SP \o N_1910 \o SP \o <<"7", "0", "0">>
\* #IB -1 1910 900
Line_IbMinus1 == KW_IB \o SP \o <<"-", "1">> \o SP \o N_1910 \o SP
                \o <<"9", "0", "0">>
\* #IB 0 1910       (fewer fields than the grammar requires)
Line_IbShort == KW_IB \o SP \o <<"0">> \o SP \o N_1910
\* #TRANS 1910 1000
Line_Trans1910 == KW_TRANS \o SP \o N_1910 \o SP \o <<"1", "0", "0", "0">>
\* #TRANS 3000 {} -250
Line_Trans3000 == KW_TRANS \o SP \o N_3000 \o SP \o <<"{", "}">> \o SP
                \o <<"-", "2", "5", "0">>
\* #TRANS x 5_       (non-numeric text in the account field; the line ends
\* with a space, so the last field is empty)
Line_TransText == KW_TRANS \o SP \o <<"x">> \o SP \o <<"5">> \o SP
\* #TRANS            (fewer fields than the grammar requires)
Line_TransShort == KW_TRANS

Lines == {Line_VerA, Line_VerB, Line_VerShort, Line_VerX, Line_LowerVer,
          Line_Fnamn, Line_Konto1910, Line_Konto3000, Line_KontoShort,
          Line_Ib0, Line_Ib1, Line_IbMinus1, Line_IbShort,
          Line_Trans1910, Line_Trans3000, Line_TransText, Line_TransShort}

(***************************************************************************)
(* parse_sie_file                                                          *)
(***************************************************************************)
\* lines 117-119 and 166-168: current_ver.take() pushed on verifications
flush(vers, cur) == IF cur = None THEN vers ELSE Append(vers, cur[1])

\* lines 123-129
new_verification(parts) ==
    [serie |-> clean_string(parts[2]),
     number |-> unwrap_or(parse_u32(parts[3]), 0),
     date |-> clean_string(parts[4]),
     text |-> clean_string(parts[5]),
     transactions |-> <<>>]

\* lines 134-147
ib_year(parts) == unwrap_or(parse_u32(parts[2]), 0)

\* an #IB line for an unknown number creates the account
apply_ib_creating(accs, parts) ==
    LET year == ib_year(parts)
        account_no == unwrap_or(parse_u32(parts[3]), 0)
        amount == unwrap_or(parse_f64(parts[4]), 0)
        found == find_account(accs, account_no)
    IN IF year # 0 THEN accs
       ELSE IF found # None
       THEN [accs EXCEPT ![found[1]].in_balance = amount]
       ELSE Append(accs, [number |-> account_no, name |-> <<>>,
                          in_balance |-> amount, out_balance |-> 0])

apply_ib(accs, parts) ==
    LET year == ib_year(parts)
        account_no == unwrap_or(parse_u32(parts[3]), 0)
        amount == unwrap_or(parse_f64(parts[4]), 0)
        found == find_account(accs, account_no)
    IN IF year = 0 /\ found # None
       THEN [accs EXCEPT ![found[1]].in_balance = amount]
       ELSE accs

\* lines 151-155
new_account(parts) ==
    [number |-> unwrap_or(parse_u32(parts[2]), 0),
     name |-> clean_string(parts[3]),
     in_balance |-> 0,
     out_balance |-> 0]

\* the amount read from field 2 instead of the last field
new_transaction_amount_at_2(parts) ==
    [account |-> unwrap_or(parse_u32(parts[2]), 0),
     amount |-> unwrap_or(parse_f64(parts[IF Len(parts) >= 3 THEN 3
                                          ELSE Len(parts)]), 0)]

\* lines 159-161
new_transaction(parts) ==
    [account |-> unwrap_or(parse_u32(parts[2]), 0),
     amount |-> unwrap_or(parse_f64(parts[Len(parts)]), 0)]

\* the transaction put at the front of the list
push_transaction_front(ver, transaction) ==
    [ver EXCEPT !.transactions = <<transaction>> \o @]

\* line 161: ver.transactions.push(..)
push_transaction(ver, transaction) ==
    [ver EXCEPT !.transactions = Append(@, transaction)]

\* the keywords compared without regard to letter case
to_upper(c) ==
    CASE c = "v" -> "V" [] c = "e" -> "E" [] c = "r" -> "R" [] OTHER -> c

branch_ignoring_case(line) ==
    LET upper == [i \in 1..Len(line) |-> to_upper(line[i])]
    IN IF starts_with(upper, KW_VER) THEN "VER"
       ELSE IF starts_with(upper, KW_IB) THEN "IB"
       ELSE IF starts_with(upper, KW_KONTO) THEN "KONTO"
       ELSE IF starts_with(upper, KW_TRANS) THEN "TRANS"
       ELSE "other"

\* which branch of the if / else-if chain of lines 116-163 takes the line
branch(line) ==
    IF starts_with(line, KW_VER) THEN "VER"
    ELSE IF starts_with(line, KW_IB) THEN "IB"
    ELSE IF starts_with(line, KW_KONTO) THEN "KONTO"
    ELSE IF starts_with(line, KW_TRANS) THEN "TRANS"
    ELSE "other"

\* the loop takes the next line of contents
TakeLine(line) ==
    /\ pc = "parsing"
    /\ Len(consumed) < MaxLines
    /\ consumed' = Append(consumed, line)

PureUnchanged == UNCHANGED <<tl_line, tl_fields, cs_in, cs_out>>

\* line 108: read_sie_file(path)? returned Ok
ReadOk ==
    /\ pc = "start"
    /\ pc' = "parsing"
    /\ UNCHANGED <<consumed, verifications, accounts, current_ver>>
    /\ PureUnchanged

\* a failed read answered with an empty Ok result
ReadErr_empty_result ==
    /\ pc = "start"
    /\ pc' = "done"
    /\ UNCHANGED <<consumed, verifications, accounts, current_ver>>
    /\ PureUnchanged

\* line 108: read_sie_file(path)? returned Err, which parse_sie_file returns
ReadErr ==
    /\ pc = "start"
    /\ pc' = "io_error"
    /\ UNCHANGED <<consumed, verifications, accounts, current_ver>>
    /\ PureUnchanged

\* lines 116-129; indexing parts[1..4] panics on a line of fewer than 5 fields,
\* after the open verification has been pushed
VerLine(line) ==
    /\ TakeLine(line)
    /\ branch(line) = "VER"
    /\ LET parts == parse_line(line)
       IN /\ verifications' = flush(verifications, current_ver)
          /\ IF Len(parts) < 5
             THEN current_ver' = None /\ pc' = "panicked"
             ELSE current_ver' = Some(new_verification(parts)) /\ pc' = pc
    /\ UNCHANGED accounts
    /\ PureUnchanged

\* an #IB line closes the open verification
IbLine_closing(line) ==
    /\ TakeLine(line)
    /\ branch(line) = "IB"
    /\ LET parts == parse_line(line)
       IN IF Len(parts) < 4
          THEN accounts' = accounts /\ pc' = "panicked"
          ELSE accounts' = apply_ib(accounts, parts) /\ pc' = pc
    /\ verifications' = flush(verifications, current_ver)
    /\ current_ver' = None
    /\ PureUnchanged

\* lines 130-147; indexing parts[1..3] panics on a line of fewer than 4 fields
IbLine(line) ==
    /\ TakeLine(line)
    /\ branch(line) = "IB"
    /\ LET parts == parse_line(line)
       IN IF Len(parts) < 4
          THEN accounts' = accounts /\ pc' = "panicked"
          ELSE accounts' = apply_ib(accounts, parts) /\ pc' = pc
    /\ UNCHANGED <<verifications, current_ver>>
    /\ PureUnchanged

\* a #KONTO line whose number is already present adds no account
KontoLine_unique(line) ==
    /\ TakeLine(line)
    /\ branch(line) = "KONTO"
    /\ LET parts == parse_line(line)
       IN IF Len(parts) < 3
          THEN accounts' = accounts /\ pc' = "panicked"
          ELSE /\ accounts' =
                    IF find_account(accounts, new_account(parts).number) = None
                    THEN Append(accounts, new_account(parts))
                    ELSE accounts
               /\ pc' = pc
    /\ UNCHANGED <<verifications, current_ver>>
    /\ PureUnchanged

\* lines 149-155; indexing parts[2] panics on a line of fewer than 3 fields
KontoLine(line) ==
    /\ TakeLine(line)
    /\ branch(line) = "KONTO"
    /\ LET parts == parse_line(line)
       IN IF Len(parts) < 3
          THEN accounts' = accounts /\ pc' = "panicked"
          ELSE accounts' = Append(accounts, new_account(parts)) /\ pc' = pc
    /\ UNCHANGED <<verifications, current_ver>>
    /\ PureUnchanged

\* a TRANS line met with no verification open opens one to hold it
TransLine_opening(line) ==
    /\ TakeLine(line)
    /\ branch(line) = "TRANS"
    /\ LET parts == parse_line(line)
           ver == IF current_ver = None
                  THEN [serie |-> <<>>, number |-> 0, date |-> <<>>,
                        text |-> <<>>, transactions |-> <<>>]
                  ELSE current_ver[1]
       IN IF Len(parts) < 2
          THEN current_ver' = current_ver /\ pc' = "panicked"
          ELSE /\ current_ver' =
                    Some(push_transaction(ver, new_transaction(parts)))
               /\ pc' = pc
    /\ UNCHANGED <<verifications, accounts>>
    /\ PureUnchanged

\* lines 156-162; with a verification open, indexing parts[1] panics on a line
\* of one field; with none open the line is not even tokenized
TransLine(line) ==
    /\ TakeLine(line)
    /\ branch(line) = "TRANS"
    /\ IF current_ver = None
       THEN current_ver' = current_ver /\ pc' = pc
       ELSE LET parts == parse_line(line)
            IN IF Len(parts) < 2
               THEN current_ver' = current_ver /\ pc' = "panicked"
               ELSE /\ current_ver' =
                         Some(push_transaction(current_ver[1],
                                               new_transaction(parts)))
                    /\ pc' = pc
    /\ UNCHANGED <<verifications, accounts>>
    /\ PureUnchanged

\* no branch of lines 116-163 takes the line
OtherLine(line) ==
    /\ TakeLine(line)
    /\ branch(line) = "other"
    /\ UNCHANGED <<pc, verifications, accounts, current_ver>>
    /\ PureUnchanged

\* lines 166-172: contents.lines() is exhausted
EndOfInput ==
    /\ pc = "parsing"
    /\ verifications' = flush(verifications, current_ver)
    /\ current_ver' = None
    /\ accounts' = calculate_out_balances(accounts, verifications')
    /\ pc' = "done"
    /\ UNCHANGED consumed
    /\ PureUnchanged

Init ==
    /\ pc = "start"
    /\ consumed = <<>>
    /\ verifications = <<>>
    /\ accounts = <<>>
    /\ current_ver = None
    /\ tl_line = <<>>
    /\ tl_fields = <<>>
    /\ cs_in = <<>>
    /\ cs_out = <<>>

Next ==
    \/ ReadOk
    \/ ReadErr
    \/ \E line \in Lines : VerLine(line)
    \/ \E line \in Lines : IbLine(line)
    \/ \E line \in Lines : KontoLine(line)
    \/ \E line \in Lines : TransLine(line)
    \/ \E line \in Lines : OtherLine(line)
    \/ EndOfInput

Spec == Init /\ [][Next]_vars

(***************************************************************************)
(* The pure functions, called on every input up to a bound                 *)
(***************************************************************************)
TokAlphabet == {"a", "b", SPC, DQ}

CleanAlphabet == {DQ, SPC, "a", QMARK,
                  G_201E, G_201D, G_2122, G_2020, G_008F, G_FFFD,
                  L_ae, L_oe, L_OE, L_aa, L_AA}

ParserIdle ==
    /\ pc = "start"
    /\ consumed = <<>>
    /\ verifications = <<>>
    /\ accounts = <<>>
    /\ current_ver = None

ParserUnchanged ==
    UNCHANGED <<pc, consumed, verifications, accounts, current_ver>>

InitParseLine ==
    /\ ParserIdle
    /\ tl_line \in BoundedSeq(TokAlphabet, MaxLineLen)
    /\ tl_fields = <<>>
    /\ cs_in = <<>>
    /\ cs_out = <<>>

\* let fields = parse_line(line)
CallParseLine ==
    /\ tl_fields = <<>>
    /\ tl_fields' = parse_line(tl_line)
    /\ UNCHANGED <<tl_line, cs_in, cs_out>>
    /\ ParserUnchanged

SpecParseLine == InitParseLine /\ [][CallParseLine]_vars

InitCleanString ==
    /\ ParserIdle
    /\ tl_line = <<>>
    /\ tl_fields = <<>>
    /\ cs_in \in BoundedSeq(CleanAlphabet, MaxCleanLen)
    /\ cs_out = <<>>

\* clean_string applied to the input, then to its own result
CallCleanString ==
    /\ Len(cs_out) < 2
    /\ cs_out' = Append(cs_out, clean_string(IF cs_out = <<>> THEN cs_in
                                             ELSE cs_out[Len(cs_out)]))
    /\ UNCHANGED <<tl_line, tl_fields, cs_in>>
    /\ ParserUnchanged

SpecCleanString == InitCleanString /\ [][CallCleanString]_vars

(***************************************************************************)
(* Vocabulary of the properties                                            *)
(***************************************************************************)
\* the n-th smallest element of a finite set of integers
NthSmallest(S, n) == CHOOSE x \in S : Cardinality({y \in S : y <= x}) = n

\* the loop took a line in this step, and which
LineTaken == Len(consumed') = Len(consumed) + 1
TakenLine == consumed'[Len(consumed')]

\* the verifications built so far: the finished ones, then the open one
AllVers == verifications \o current_ver

\* where the lines handled as VER records are
VerPositions(c) == {p \in 1..Len(c) : branch(c[p]) = "VER"}

\* the transactions of the TRANS lines between the k-th VER line of c and the
\* next VER line (or the end of c), in their order
TransBetween(c, k) ==
    LET P == VerPositions(c)
        p == NthSmallest(P, k)
        q == IF k < Cardinality(P) THEN NthSmallest(P, k + 1) ELSE Len(c) + 1
        J == {j \in (p + 1)..(q - 1) : branch(c[j]) = "TRANS"}
    IN [n \in 1..Cardinality(J) |->
           new_transaction(parse_line(c[NthSmallest(J, n)]))]

\* every transaction of a verification sequence, in order
RECURSIVE AllTransactions(_)
AllTransactions(vers) ==
    IF vers = <<>> THEN <<>>
    ELSE Head(vers).transactions \o AllTransactions(Tail(vers))

\* the sum of the amounts posted to account `number`
RECURSIVE SumPostings(_, _)
SumPostings(transactions, number) ==
    IF transactions = <<>> THEN 0
    ELSE (IF Head(transactions).account = number
          THEN Head(transactions).amount ELSE 0)
         + SumPostings(Tail(transactions), number)

\* account i is the first of the sequence with its number
FirstOfNumber(accs, i) == \A j \in 1..(i - 1) : accs[j].number # accs[i].number

\* the integer a field denotes when read as an optionally signed decimal
IsSignedDecimal(field) ==
    LET digits == IF field # <<>> /\ field[1] \in {"+", "-"}
                  THEN Tail(field) ELSE field
    IN AllDigits(digits)

DenotedInt(field) ==
    IF field[1] = "-" THEN 0 - DecimalValue(Tail(field))
    ELSE IF field[1] = "+" THEN DecimalValue(Tail(field))
    ELSE DecimalValue(field)

InBalances(accs) == [i \in 1..Len(accs) |-> accs[i].in_balance]

(***************************************************************************)
(* C1                                                                      *)
(***************************************************************************)
\* C1 as stated: in the returned accounts, every account's out_balance is its
\* in_balance plus the sum of all transactions carrying its number.
C1_EveryAccountBalances ==
    pc = "done" =>
        \A i \in 1..Len(accounts) :
            accounts[i].out_balance =
                accounts[i].in_balance
                + SumPostings(AllTransactions(verifications), accounts[i].number)

\* C1 amended: in the returned accounts, the first account of each number has
\* out_balance = in_balance + the sum of all transactions carrying that number
\* (wherever the transactions stand relative to the #KONTO line), and every
\* later account of the same number has out_balance = in_balance.
C1_FirstAccountBalances ==
    pc = "done" =>
        \A i \in 1..Len(accounts) :
            accounts[i].out_balance =
                accounts[i].in_balance
                + (IF FirstOfNumber(accounts, i)
                   THEN SumPostings(AllTransactions(verifications),
                                    accounts[i].number)
                   ELSE 0)

\* a posting that precedes its account's #KONTO line, and an opening balance
C1_Witness ==
    /\ pc = "done"
    /\ consumed = <<Line_VerA, Line_Trans1910, Line_Konto1910, Line_Ib0>>
    /\ accounts[1].out_balance = 1500

(***************************************************************************)
(* C2                                                                      *)
(***************************************************************************)
\* C2: no sequence of lines puts the parser in a panicked state.
C2_NeverPanics == pc # "panicked"

(***************************************************************************)
(* C3                                                                      *)
(***************************************************************************)
C3_Grouping ==
    pc \in {"parsing", "done"} =>
        /\ Len(AllVers) = Cardinality(VerPositions(consumed))
        /\ \A k \in 1..Len(AllVers) :
               AllVers[k].transactions = TransBetween(consumed, k)

C3_Finalized ==
    /\ \A i \in 1..Len(verifications) :
           /\ i <= Len(verifications')
           /\ verifications'[i] = verifications[i]
    /\ (LineTaken /\ branch(TakenLine) = "VER" /\ current_ver # None)
           => verifications' = Append(verifications, current_ver[1])

\* C3: each verification holds exactly the transactions of the TRANS lines
\* between its own VER line and the next VER line (or the end of the input), in
\* order; a VER line appends the open verification to the output as it is, and
\* a verification in the output never changes afterwards.
C3_TransactionsGrouped == []C3_Grouping /\ [][C3_Finalized]_vars

\* the example of the spec: #VER, #TRANS 1910 1000, #VER
C3_Witness ==
    /\ consumed = <<Line_VerA, Line_Trans1910, Line_VerB>>
    /\ Len(verifications) = 1
    /\ verifications[1].transactions = <<[account |-> 1910, amount |-> 1000]>>
    /\ current_ver # None
    /\ current_ver[1].transactions = <<>>

(***************************************************************************)
(* C4                                                                      *)
(***************************************************************************)
\* C4: when parse_sie_file has stopped, no verification is left open and the
\* output holds one verification per VER line of the input.
C4_EveryVerReturned ==
    pc \in {"done", "panicked"} =>
        /\ current_ver = None
        /\ Len(verifications) = Cardinality(VerPositions(consumed))

(***************************************************************************)
(* C5                                                                      *)
(***************************************************************************)
C5_OrphanStep ==
    (LineTaken /\ branch(TakenLine) = "TRANS" /\ current_ver = None)
        => /\ current_ver' = None
           /\ verifications' = verifications
           /\ accounts' = accounts
           /\ pc' = "parsing"

C5_NoOrphanPosting ==
    /\ (pc \in {"parsing", "done"} /\ VerPositions(consumed) = {})
           => AllVers = <<>>
    /\ (pc = "done" /\ VerPositions(consumed) = {})
           => \A i \in 1..Len(accounts) :
                  accounts[i].out_balance = accounts[i].in_balance

\* C5: a TRANS line taken while no verification is open changes neither the
\* open-verification slot nor the output nor the accounts; while no VER line
\* has been taken no verification exists, and the closing balances of such a
\* file are the opening balances.
C5_OrphanTransIgnored == []C5_NoOrphanPosting /\ [][C5_OrphanStep]_vars

\* #KONTO 1910, #IB 0 1910 500, #TRANS 1910 1000 and the end of the input
C5_Witness ==
    /\ pc = "done"
    /\ consumed = <<Line_Konto1910, Line_Ib0, Line_Trans1910>>
    /\ verifications = <<>>
    /\ accounts[1].out_balance = 500

(***************************************************************************)
(* C6                                                                      *)
(***************************************************************************)
\* C6: an #IB line whose offset field denotes a non-zero integer leaves every
\* account's in_balance as it was.
C6_NonZeroOffsetIgnored ==
    [][(/\ LineTaken
        /\ branch(TakenLine) = "IB"
        /\ Len(parse_line(TakenLine)) >= 2
        /\ IsSignedDecimal(parse_line(TakenLine)[2])
        /\ DenotedInt(parse_line(TakenLine)[2]) # 0)
            => InBalances(accounts') = InBalances(accounts)]_vars

(***************************************************************************)
(* C7                                                                      *)
(***************************************************************************)
Keywords == {KW_VER, KW_IB, KW_KONTO, KW_TRANS}
FirstToken(line) == parse_line(line)[1]
BeginsWithKeyword(line) == \E kw \in Keywords : starts_with(line, kw)

\* C7 as stated: a line whose first token is not exactly one of the four
\* keywords changes neither the accounts nor the output nor the open slot.
C7_OtherTokenIgnored ==
    [][(LineTaken /\ FirstToken(TakenLine) \notin Keywords)
          => UNCHANGED <<accounts, verifications, current_ver>>]_vars

C7_OtherStep ==
    (LineTaken /\ ~BeginsWithKeyword(TakenLine))
        => /\ UNCHANGED <<accounts, verifications, current_ver>>
           /\ pc' = "parsing"

C7_EmptyResult ==
    (pc = "done" /\ \A i \in 1..Len(consumed) : ~BeginsWithKeyword(consumed[i]))
        => verifications = <<>> /\ accounts = <<>>

\* C7 amended: a line that does not begin with the characters of one of the
\* four keywords (compared case-sensitively) changes neither the accounts nor
\* the output nor the open slot and parsing goes on; a file of such lines
\* only yields no verification and no account.
C7_OtherPrefixIgnored == []C7_EmptyResult /\ [][C7_OtherStep]_vars

\* an account and an open verification survive #ver and #FNAMN lines
C7_Witness ==
    /\ pc = "parsing"
    /\ consumed = <<Line_Konto1910, Line_VerA, Line_LowerVer, Line_Fnamn>>
    /\ Len(accounts) = 1
    /\ verifications = <<>>
    /\ current_ver # None
    /\ current_ver[1].serie = <<"A">>

(***************************************************************************)
(* C8                                                                      *)
(***************************************************************************)
QuotePositions(s) == {j \in 1..Len(s) : s[j] = DQ}

\* the quote state when the character at position i is read
QuotedAt(s, i) == Cardinality({j \in QuotePositions(s) : j < i}) % 2 = 1

UnquotedSpaces(s) == {i \in 1..Len(s) : s[i] = SPC /\ ~QuotedAt(s, i)}

NotQuote(c) == c # DQ

\* the characters other than quotes between the (k-1)-th and the k-th
\* unquoted space
FieldBetween(s, k) ==
    LET U == UnquotedSpaces(s)
        lo == IF k = 1 THEN 0 ELSE NthSmallest(U, k - 1)
        hi == IF k > Cardinality(U) THEN Len(s) + 1 ELSE NthSmallest(U, k)
    IN SelectSeq(SubSeq(s, lo + 1, hi - 1), NotQuote)

ExpectedFields(s) ==
    [k \in 1..(Cardinality(UnquotedSpaces(s)) + 1) |-> FieldBetween(s, k)]

\* the part of the line after its last quote is the end of the last field
RestAfterLastQuote(s) ==
    LET q == NthSmallest(QuotePositions(s), Cardinality(QuotePositions(s)))
    IN SubSeq(s, q + 1, Len(s))

EndsWith(s, suffix) ==
    /\ Len(s) >= Len(suffix)
    /\ SubSeq(s, Len(s) - Len(suffix) + 1, Len(s)) = suffix

\* C8: parse_line returns 1 + (number of unquoted spaces) fields, the k-th
\* being the characters between the (k-1)-th and k-th unquoted space without
\* the quote characters; no field holds a quote; after an unterminated quote
\* the rest of the line is the end of the last field.
C8_FieldsSplitAtUnquotedSpaces ==
    tl_fields # <<>> =>
        /\ Len(tl_fields) = 1 + Cardinality(UnquotedSpaces(tl_line))
        /\ tl_fields = ExpectedFields(tl_line)
        /\ \A k \in 1..Len(tl_fields) :
               \A i \in 1..Len(tl_fields[k]) : tl_fields[k][i] # DQ
        /\ Cardinality(QuotePositions(tl_line)) % 2 = 1
               => EndsWith(tl_fields[Len(tl_fields)], RestAfterLastQuote(tl_line))

\* two unquoted spaces in a row, then an unterminated quote holding a space
C8_Witness ==
    /\ tl_line = <<"a", SPC, SPC, DQ, SPC>>
    /\ tl_fields = << <<"a">>, <<>>, <<SPC>> >>

(***************************************************************************)
(* C9                                                                      *)
(***************************************************************************)
HasSpace(f) == \E i \in 1..Len(f) : f[i] = SPC
Requote(f) == IF HasSpace(f) THEN <<DQ>> \o f \o <<DQ>> ELSE f

RECURSIVE JoinFields(_)
JoinFields(fs) ==
    IF Len(fs) = 1 THEN Requote(fs[1])
    ELSE Requote(Head(fs)) \o SP \o JoinFields(Tail(fs))

Balanced(s) == Cardinality(QuotePositions(s)) % 2 = 0

NoConsecutiveUnquotedSpaces(s) ==
    \A i \in UnquotedSpaces(s) : (i + 1) \notin UnquotedSpaces(s)

\* C9: for a line with balanced quotes and no two unquoted spaces in a row,
\* the fields joined by single spaces, those holding a space wrapped in
\* quotes, tokenize to the same fields.
C9_RoundTrip ==
    (/\ tl_fields # <<>>
     /\ Balanced(tl_line)
     /\ NoConsecutiveUnquotedSpaces(tl_line))
        => parse_line(JoinFields(tl_fields)) = tl_fields

\* a quoted field holding a space, then a plain field
C9_Witness ==
    /\ tl_line = <<DQ, SPC, DQ, SPC, "a">>
    /\ tl_fields = << <<SPC>>, <<"a">> >>
    /\ JoinFields(tl_fields) = tl_line

(***************************************************************************)
(* C10                                                                     *)
(***************************************************************************)
EdgeQuote(s) == s # <<>> /\ (s[1] = DQ \/ s[Len(s)] = DQ)

\* C10 as stated: clean_string applied twice gives what it gives once.
C10_Idempotent == Len(cs_out) = 2 => cs_out[2] = cs_out[1]

\* C10 amended: clean_string applied twice gives what it gives once exactly
\* when the once-cleaned string neither begins nor ends with a quote (so for
\* every string without quotes); a string with whitespace outside its quotes
\* keeps quotes that the second application strips.  The substitutions leave
\* a cleaned string as it is.
C10_IdempotentUnlessQuoteLeft ==
    /\ Len(cs_out) = 2 => (cs_out[2] = cs_out[1] <=> ~EdgeQuote(cs_out[1]))
    /\ Len(cs_out) >= 1 => substitute(cs_out[1]) = cs_out[1]
    /\ (Len(cs_out) >= 1 /\ \A i \in 1..Len(cs_in) : cs_in[i] # DQ)
           => ~EdgeQuote(cs_out[1])

\* a quoted mis-encoded glyph: cleaned to the corrected letter, twice
C10_Witness ==
    /\ cs_in = <<DQ, G_201E, DQ>>
    /\ cs_out = << <<L_ae>>, <<L_ae>> >>

(***************************************************************************)
(* C11                                                                     *)
(***************************************************************************)
\* where the lines handled as KONTO records are
KontoPositions(c) == {p \in 1..Len(c) : branch(c[p]) = "KONTO"}

\* the account number a KONTO line carries: field 1 as a u32, 0 if it is none
KontoNumber(line) == unwrap_or(parse_u32(parse_line(line)[2]), 0)

\* C11 as stated: no two entries of the account sequence have the same number.
C11_NumbersUnique ==
    \A i, j \in 1..Len(accounts) :
        accounts[i].number = accounts[j].number => i = j

\* C11 amended: the account sequence holds one account per #KONTO line taken,
\* in line order, with the number that line carries; so two entries have the
\* same number exactly when two #KONTO lines carry the same number.
C11_OneAccountPerKontoLine ==
    pc \in {"parsing", "done"} =>
        /\ Len(accounts) = Cardinality(KontoPositions(consumed))
        /\ \A k \in 1..Len(accounts) :
               accounts[k].number =
                   KontoNumber(consumed[NthSmallest(KontoPositions(consumed), k)])

\* #KONTO 1910 twice and #KONTO 3000
C11_Witness ==
    /\ consumed = <<Line_Konto1910, Line_Konto3000, Line_Konto1910>>
    /\ Len(accounts) = 3
    /\ accounts[1].number = 1910
    /\ accounts[2].number = 3000
    /\ accounts[3].number = 1910

(***************************************************************************)
(* C12                                                                     *)
(***************************************************************************)
C12_NothingProcessed ==
    pc = "io_error" =>
        /\ consumed = <<>>
        /\ verifications = <<>>
        /\ accounts = <<>>
        /\ current_ver = None
        /\ ~ENABLED Next

C12_NoResultWithoutRead == pc = "start" => pc' \in {"parsing", "io_error"}

\* C12: when the read fails parse_sie_file stops with the I/O error: no line
\* has been taken, there is no account and no verification, and nothing runs
\* afterwards; a result is returned only after a read that succeeded.
C12_ReadErrorAborts == []C12_NothingProcessed /\ [][C12_NoResultWithoutRead]_vars

C12_Witness ==
    /\ pc = "io_error"
    /\ consumed = <<>>
    /\ accounts = <<>>
    /\ verifications = <<>>

(***************************************************************************)
(* C13                                                                     *)
(***************************************************************************)
U32OrZero(field) == IF parse_u32(field) = None THEN 0 ELSE parse_u32(field)[1]
F64OrZero(field) == IF parse_f64(field) = None THEN 0 ELSE parse_f64(field)[1]

C13_AppendStep ==
    (/\ LineTaken
     /\ branch(TakenLine) = "TRANS"
     /\ current_ver # None
     /\ Len(parse_line(TakenLine)) >= 2)
        => LET parts == parse_line(TakenLine)
               posted == [account |-> U32OrZero(parts[2]),
                          amount |-> F64OrZero(parts[Len(parts)])]
           IN /\ current_ver' # None
              /\ current_ver'[1].transactions =
                     Append(current_ver[1].transactions, posted)
              /\ current_ver'[1].serie = current_ver[1].serie
              /\ current_ver'[1].number = current_ver[1].number
              /\ current_ver'[1].date = current_ver[1].date
              /\ current_ver'[1].text = current_ver[1].text
              /\ UNCHANGED <<verifications, accounts, pc>>

C14_FrameStep ==
    (LineTaken /\ branch(TakenLine) \in {"IB", "KONTO"})
        => UNCHANGED <<current_ver, verifications>>

\* the open verification is the one of the most recent VER line
C14_OpenIsMostRecent ==
    (pc = "parsing" /\ current_ver # None) =>
        LET P == VerPositions(consumed)
            last == consumed[NthSmallest(P, Cardinality(P))]
        IN /\ current_ver[1].serie = clean_string(parse_line(last)[2])
           /\ current_ver[1].transactions = TransBetween(consumed, Cardinality(P))

\* C14: an IB or KONTO line leaves the open-verification slot and the output
\* verification sequence exactly as they were; whatever IB and KONTO lines
\* come in between, the open verification is that of the most recent VER line
\* and holds the TRANS lines taken since.
C14_IbKontoKeepVerifications ==
    []C14_OpenIsMostRecent /\ [][C14_FrameStep]_vars

\* #VER A, #KONTO 1910, #IB 0 1910 500, #TRANS 1910 1000
C14_Witness ==
    /\ consumed = <<Line_VerA, Line_Konto1910, Line_Ib0, Line_Trans1910>>
    /\ verifications = <<>>
    /\ current_ver # None
    /\ current_ver[1].serie = <<"A">>
    /\ current_ver[1].transactions = <<[account |-> 1910, amount |-> 1000]>>
    /\ accounts[1].in_balance = 500

(***************************************************************************)
(* C15                                                                     *)
(***************************************************************************)
\* the IB lines after position p of c that the code reads as offset 0 for
\* account `number`
IbHits(c, p, number) ==
    {j \in (p + 1)..Len(c) :
        /\ branch(c[j]) = "IB"
        /\ Len(parse_line(c[j])) >= 4
        /\ U32OrZero(parse_line(c[j])[2]) = 0
        /\ U32OrZero(parse_line(c[j])[3]) = number}

C15_UnknownStep ==
    (/\ LineTaken
     /\ branch(TakenLine) = "IB"
     /\ Len(parse_line(TakenLine)) >= 4
     /\ U32OrZero(parse_line(TakenLine)[2]) = 0
     /\ \A i \in 1..Len(accounts) :
            accounts[i].number # U32OrZero(parse_line(TakenLine)[3]))
        => /\ accounts' = accounts
           /\ pc' = "parsing"
           /\ UNCHANGED <<verifications, current_ver>>

C15_EarlyIbLost ==
    pc \in {"parsing", "done"} =>
        /\ Len(accounts) = Cardinality(KontoPositions(consumed))
        /\ \A k \in 1..Len(accounts) :
            IbHits(consumed, NthSmallest(KontoPositions(consumed), k),
                   accounts[k].number) = {}
                => accounts[k].in_balance = 0

RECURSIVE TotalPosted(_)
TotalPosted(accs) ==
    IF accs = <<>> THEN 0
    ELSE Head(accs).out_balance - Head(accs).in_balance + TotalPosted(Tail(accs))

\* the sum of the amounts of the transactions whose account number some
\* account carries
RECURSIVE SumKnown(_, _)
SumKnown(transactions, accs) ==
    IF transactions = <<>> THEN 0
    ELSE (IF \E i \in 1..Len(accs) : accs[i].number = Head(transactions).account
          THEN Head(transactions).amount ELSE 0)
         + SumKnown(Tail(transactions), accs)

\* C16: in the result, what reconciliation added to the accounts' closing
\* balances is exactly the sum of the transactions whose account number is
\* known: a transaction of an unknown account adds nothing to any account and
\* every transaction of a known account, also after an unknown one, is added.
C16_UnknownAccountSkipped ==
    pc = "done" =>
        TotalPosted(accounts) = SumKnown(AllTransactions(verifications), accounts)

\* a posting to the unknown account 3000, then a posting to 1910
C16_Witness ==
    /\ pc = "done"
    /\ consumed = <<Line_Konto1910, Line_VerA, Line_Trans3000, Line_Trans1910>>
    /\ accounts[1].in_balance = 0
    /\ accounts[1].out_balance = 1000

(***************************************************************************)
(* C17                                                                     *)
(***************************************************************************)
\* an account without its out_balance
Fixed(account) ==
    [number |-> account.number, name |-> account.name,
     in_balance |-> account.in_balance]

C17_ReconcileStep ==
    /\ pc' = "done" =>
           /\ verifications' = AllVers
           /\ Len(accounts') = Len(accounts)
           /\ \A i \in 1..Len(accounts) : Fixed(accounts'[i]) = Fixed(accounts[i])
    /\ pc # "done"

\* C17: the step that ends the input and reconciles leaves every verification
\* (the open one, now last in the output, included) and the length and order
\* of the accounts and every account's number, name and in_balance as they
\* were; once the result is there nothing is written any more.
C17_OnlyOutBalanceWritten == [][C17_ReconcileStep]_vars

\* a reconciliation that did write a closing balance
C17_Witness ==
    /\ pc = "done"
    /\ consumed = <<Line_Konto1910, Line_Ib0, Line_VerA, Line_Trans1910>>
    /\ Len(verifications) = 1
    /\ accounts[1].name = <<"K", "a", "s", "s", "a">>
    /\ accounts[1].in_balance = 500
    /\ accounts[1].out_balance = 1500

(***************************************************************************)
(* C18                                                                     *)
(***************************************************************************)
\* the numbers find_account is asked for: those of the model's lines
AskedNumbers == {0, 1910, 3000}

C18_LowestIndex ==
    \A n \in AskedNumbers :
        LET M == {i \in 1..Len(accounts) : accounts[i].number = n}
        IN find_account(accounts, n) =
               IF M = {} THEN None ELSE Some(NthSmallest(M, 1))

\* the amount of the last offset-0 IB line for the account's number that
\* follows the account's KONTO line, 0 if there is none
OpeningFromLines(c, k, number) ==
    LET H == IbHits(c, NthSmallest(KontoPositions(c), k), number)
    IN IF H = {} THEN 0
       ELSE F64OrZero(parse_line(c[NthSmallest(H, Cardinality(H))])[4])

\* C18: find_account gives the lowest matching index (None without a match);
\* of the accounts carrying one number the earliest takes every offset-0 IB
\* amount and every posting, and each later one keeps in_balance 0 and ends
\* with out_balance equal to it.
C18_FirstMatchWins ==
    pc \in {"parsing", "done"} =>
        /\ C18_LowestIndex
        /\ \A k \in 1..Len(accounts) :
               IF FirstOfNumber(accounts, k)
               THEN /\ accounts[k].in_balance =
                           OpeningFromLines(consumed, k, accounts[k].number)
                    /\ pc = "done" =>
                           accounts[k].out_balance - accounts[k].in_balance =
                               SumPostings(AllTransactions(verifications),
                                           accounts[k].number)
               ELSE /\ accounts[k].in_balance = 0
                    /\ accounts[k].out_balance = 0

\* two accounts of one number: the first has a balance, the second none
C18_Witness ==
    /\ pc = "done"
    /\ Len(accounts) = 2
    /\ accounts[1].number = accounts[2].number
    /\ accounts[1].out_balance # 0
    /\ accounts[2].in_balance = 0
    /\ accounts[2].out_balance = 0

(***************************************************************************)
(* C19                                                                     *)
(***************************************************************************)
\* C19: calculate_out_balances run again on its own result, with the same
\* verifications, gives that result: in the returned state, and at any point
\* of the parse were the reconciliation run there.
C19_ReconcileIdempotent ==
    /\ pc = "done" => calculate_out_balances(accounts, verifications) = accounts
    /\ pc = "parsing" =>
           LET once == calculate_out_balances(accounts, AllVers)
           IN calculate_out_balances(once, AllVers) = once

\* an opening balance and a posting: 1500 after one run and after two
C19_Witness ==
    /\ pc = "done"
    /\ consumed = <<Line_Konto1910, Line_Ib0, Line_VerB, Line_Trans1910>>
    /\ accounts[1].out_balance = 1500
    /\ calculate_out_balances(accounts, verifications)[1].out_balance = 1500

====
